---------------------------- MODULE Spec2Model ----------------------------
(***************************************************************************)
(* Model of the unified-peakome pipeline of create_unified_peakome.py:     *)
(* the Peak record, the source filter and cap (read_peak_file), the        *)
(* interval merger (merge_close_peaks), the uniform-length normalizer      *)
(* (make_peaks_uniform_length), the overlap resolver                       *)
(* (remove_overlapping_peaks) and the orchestrator (main).                 *)
(*                                                                         *)
(* Strings that the code indexes or compares (chromosome names, the fields *)
(* of an input line) are sequences of one-character strings; identifiers,  *)
(* which the code only concatenates and tests for emptiness, are strings.  *)
(***************************************************************************)
EXTENDS Integers, Sequences, FiniteSets, TLC

VARIABLES
    pc,                   \* position of the modelled call or of main()
    peaks,                \* the list `peaks` of the modelled function
    max_distance,         \* merge_close_peaks: max_distance
    merged_peaks,         \* merge_close_peaks: the returned list
    merged_again,         \* the list returned by a second call on merged_peaks
    distance,             \* what Peak.distance_to returned, <<>> before it is called
    target_length,        \* make_peaks_uniform_length: target_length
    uniform_peaks,        \* make_peaks_uniform_length: uniform_peaks
    idx,                  \* number of completed iterations of `for peak in peaks`
    split_pos,            \* make_peaks_uniform_length: current_pos of the split loop
    non_overlapping,      \* remove_overlapping_peaks: the returned list
    current_peak,         \* remove_overlapping_peaks: current_peak, <<>> before it is set
    lines,                \* read_peak_file: the lines of the file
    max_peaks_per_sample, \* read_peak_file: max_peaks_per_sample
    raised,               \* an exception left the modelled call
    args,                 \* main: the parsed command line
    peak_files,           \* main: the files glob found, each as its lines
    all_peaks,            \* main: all_peaks
    peaks_by_chrom,       \* main: peaks_by_chrom, in insertion order
    processed_peaks,      \* main: processed_peaks
    output,               \* the output file: whether opened for writing, its lines
    exit_status           \* what main returned, or 1 for an uncaught exception

mergeVars == <<max_distance, merged_peaks, merged_again, distance>>
normVars == <<target_length, uniform_peaks, idx, split_pos>>
resolveVars == <<non_overlapping, current_peak>>
readVars == <<lines, max_peaks_per_sample, raised>>
mainVars == <<args, peak_files, all_peaks, peaks_by_chrom, processed_peaks,
              output, exit_status>>
vars == <<pc, peaks, mergeVars, normVars, resolveVars, readVars, mainVars>>

(***************************************************************************)
(* Bounds of the model.                                                    *)
(***************************************************************************)
MaxPeaks == 2          \* intervals per call of the merger and the normalizer
MaxCoord == 4          \* largest coordinate of the merger's intervals
MaxDist == 1           \* largest merge distance
MaxStart == 2          \* largest start of the normalizer's intervals
MaxLen == 5            \* largest length of the normalizer's intervals
MaxTarget == 3         \* largest target length
MaxResolvePeaks == 3   \* intervals per call of the overlap resolver
MaxLines == 3          \* lines per file given to read_peak_file
MaxCap == 2            \* largest max_peaks_per_sample
MaxFiles == 2          \* input files of a run of main
MaxRunTarget == 5      \* largest --target-length of a run of main
MaxSweepPeaks == 3     \* intervals per call of the resolver taken one step at a time
MaxCrossPeaks == 3     \* intervals per call of the merger on two chromosomes
MaxSplitPeaks == 2     \* intervals per call of the normalizer taken one step at a time
MaxSplitLen == 7       \* largest length of those intervals

(***************************************************************************)
(* Generic helpers: Python's list.sort (stable), min, max, string order.   *)
(***************************************************************************)
Min2(a, b) == IF a <= b THEN a ELSE b
Max2(a, b) == IF a >= b THEN a ELSE b

\* Unicode code points of the characters used in chromosome names.
Ord(c) ==
    CASE c = "0" -> 48 [] c = "1" -> 49 [] c = "2" -> 50 [] c = "3" -> 51
      [] c = "4" -> 52 [] c = "5" -> 53 [] c = "6" -> 54 [] c = "7" -> 55
      [] c = "8" -> 56 [] c = "9" -> 57
      [] c = "M" -> 77 [] c = "X" -> 88 [] c = "Y" -> 89
      [] c = "c" -> 99 [] c = "h" -> 104 [] c = "r" -> 114 [] c = "x" -> 120

\* Python's str < str: lexicographic by code point, a proper prefix is smaller.
StrLess(a, b) ==
    \E k \in 1..(Len(b)) :
        /\ \A j \in 1..(k - 1) : j <= Len(a) /\ a[j] = b[j]
        /\ k - 1 <= Len(a)
        /\ (k = Len(a) + 1 \/ (k <= Len(a) /\ Ord(a[k]) < Ord(b[k])))

\* Python's tuple < tuple for tuples of integers of equal length
IntsLess(a, b) ==
    \E k \in 1..Len(a) :
        /\ \A j \in 1..(k - 1) : a[j] = b[j]
        /\ a[k] < b[k]

\* A sort key: a string followed by integers, as in (p.chrom, p.start); a key
\* without a string has the empty string in its place.
Key(str, ints) == [str |-> str, ints |-> ints]

KeyLess(k1, k2) ==
    \/ StrLess(k1.str, k2.str)
    \/ (k1.str = k2.str /\ IntsLess(k1.ints, k2.ints))

\* One insertion of list.sort seen as a stable insertion sort of (key, item)
\* pairs: x goes after every pair that does not sort after it (ascending, or
\* descending with reverse=True, which keeps equal keys in their first order).
InsertStable(sorted, x, reverse) ==
    LET n == Len(sorted)
        after == {j \in 1..n : IF reverse THEN KeyLess(sorted[j].key, x.key)
                                          ELSE KeyLess(x.key, sorted[j].key)}
        pos == IF after = {} THEN n + 1
               ELSE CHOOSE j \in after : \A k \in after : j <= k
    IN  SubSeq(sorted, 1, pos - 1) \o <<x>> \o SubSeq(sorted, pos, n)

\* list.sort(key=..., reverse=...): keys[i] is the key of seq[i]
SortStable(seq, keys, reverse) ==
    LET ins[i \in 0..Len(seq)] ==
            IF i = 0 THEN <<>>
            ELSE InsertStable(ins[i - 1], [key |-> keys[i], item |-> seq[i]], reverse)
        done == ins[Len(seq)]
    IN  [i \in 1..Len(seq) |-> done[i].item]

(***************************************************************************)
(* class Peak                                                              *)
(***************************************************************************)
Peak(chrom, start, end, score, peak_id) ==
    [chrom |-> chrom, start |-> start, end |-> end,
     score |-> score, peak_id |-> peak_id]

\* Peak.__len__
PeakLen(p) == p.end - p.start

\* float('inf') or an integer distance
Inf == [inf |-> TRUE, val |-> 0]
Fin(n) == [inf |-> FALSE, val |-> n]

\* faulty variant of DistLeq: the threshold compared with < instead of <=
DistLt(d, D) == ~d.inf /\ d.val < D

\* d <= max_distance, where d may be float('inf')
DistLeq(d, D) == ~d.inf /\ d.val <= D

\* faulty variant of distance_to: the chromosomes are not compared
distance_to_any_chrom(self, other) ==
    IF self.end < other.start THEN Fin(other.start - self.end)
    ELSE IF other.end < self.start THEN Fin(self.start - other.end)
    ELSE Fin(0)

\* Peak.distance_to
distance_to(self, other) ==
    IF self.chrom # other.chrom THEN Inf
    ELSE IF self.end < other.start THEN Fin(other.start - self.end)
    ELSE IF other.end < self.start THEN Fin(self.start - other.end)
    ELSE Fin(0)

\* faulty variant of merged_id: with an empty id only the separator is left out
merged_id_concat(a, b) == IF a # "" /\ b # "" THEN a \o "_" \o b ELSE a \o b

\* the f-string of Peak.merge_with: empty unless both ids are non-empty
merged_id(a, b) == IF a # "" /\ b # "" THEN a \o "_" \o b ELSE ""

\* faulty variant of merge_with: the end of the later interval taken instead of
\* the larger end
merge_with_other_end(self, other) ==
    Peak(self.chrom,
         Min2(self.start, other.start),
         other.end,
         Max2(self.score, other.score),
         merged_id(self.peak_id, other.peak_id))

\* Peak.merge_with raises ValueError("Cannot merge peaks from different
\* chromosomes")
merge_with_raises(self, other) == self.chrom # other.chrom

\* Peak.merge_with (called only on equal chromosomes by merge_close_peaks,
\* where distance_to has returned a finite distance)
merge_with(self, other) ==
    Peak(self.chrom,
         Min2(self.start, other.start),
         Max2(self.end, other.end),
         Max2(self.score, other.score),
         merged_id(self.peak_id, other.peak_id))

(***************************************************************************)
(* merge_close_peaks                                                       *)
(***************************************************************************)
\* key=lambda p: (p.chrom, p.start)
ChromStartKey(p) == Key(p.chrom, <<p.start>>)

\* faulty variant of SortByChromStart: the sort left out
NotSortedByChromStart(ps) == ps

\* faulty variant of SortByChromStart: the score is part of the key, as in the
\* overlap resolver
SortByChromStartThenScore(ps) ==
    SortStable(ps, [i \in 1..Len(ps) |-> Key(ps[i].chrom, <<ps[i].start, -ps[i].score>>)],
               FALSE)

\* peaks.sort(key=lambda p: (p.chrom, p.start))
SortByChromStart(ps) ==
    SortStable(ps, [i \in 1..Len(ps) |-> ChromStartKey(ps[i])], FALSE)

\* one iteration of the sweep: st = [out |-> merged_peaks, cur |-> current_peak]
merge_step(st, next_peak, D) ==
    IF DistLeq(distance_to(st.cur, next_peak), D)
    THEN [out |-> st.out, cur |-> merge_with(st.cur, next_peak)]
    ELSE [out |-> Append(st.out, st.cur), cur |-> next_peak]

\* faulty variant of merge_close_peaks: the final append of current_peak left out
merge_close_peaks_drop_last(ps, D) ==
    IF ps = <<>> THEN <<>>
    ELSE LET s == SortByChromStart(ps)
             sweep[i \in 1..Len(s)] ==
                 IF i = 1 THEN [out |-> <<>>, cur |-> s[1]]
                 ELSE merge_step(sweep[i - 1], s[i], D)
         IN  sweep[Len(s)].out

\* merge_close_peaks(peaks, max_distance): the returned list
merge_close_peaks(ps, D) ==
    IF ps = <<>> THEN <<>>
    ELSE LET s == SortByChromStart(ps)
             sweep[i \in 1..Len(s)] ==
                 IF i = 1 THEN [out |-> <<>>, cur |-> s[1]]
                 ELSE merge_step(sweep[i - 1], s[i], D)
             last == sweep[Len(s)]
         IN  Append(last.out, last.cur)

\* merge_close_peaks(peaks, max_distance) ends with the ValueError of
\* merge_with: some iteration of the sweep finds the next interval within
\* max_distance of current_peak and on another chromosome
merge_close_peaks_raises(ps, D) ==
    IF ps = <<>> THEN FALSE
    ELSE LET s == SortByChromStart(ps)
             sweep[i \in 1..Len(s)] ==
                 IF i = 1 THEN [out |-> <<>>, cur |-> s[1]]
                 ELSE merge_step(sweep[i - 1], s[i], D)
         IN  \E i \in 2..Len(s) :
                /\ DistLeq(distance_to(sweep[i - 1].cur, s[i]), D)
                /\ merge_with_raises(sweep[i - 1].cur, s[i])

(***************************************************************************)
(* make_peaks_uniform_length                                               *)
(***************************************************************************)
\* the f-string naming a piece; n is len(uniform_peaks) + 1
piece_id(peak_id, n) ==
    IF peak_id # "" THEN peak_id \o "_piece_" \o ToString(n)
    ELSE "piece_" \o ToString(n)

\* faulty variant of extended_peak: the clamp resets new_start but not new_end
extended_peak_keep_end(peak, L) ==
    LET extension_needed == L - PeakLen(peak)
        half_extension == extension_needed \div 2
        new_start == peak.start - half_extension
        new_end == peak.end + (extension_needed - half_extension)
    IN  Peak(peak.chrom, Max2(new_start, 0), new_end, peak.score, peak.peak_id)

\* faulty variant of extended_peak: the half of the extension rounded up
extended_peak_round_up(peak, L) ==
    LET extension_needed == L - PeakLen(peak)
        half_extension == (extension_needed + 1) \div 2
        new_start == peak.start - half_extension
        new_end == peak.end + (extension_needed - half_extension)
    IN  IF new_start < 0
        THEN Peak(peak.chrom, 0, L, peak.score, peak.peak_id)
        ELSE Peak(peak.chrom, new_start, new_end, peak.score, peak.peak_id)

\* the extend branch: the Peak appended for a peak shorter than L
extended_peak(peak, L) ==
    LET extension_needed == L - PeakLen(peak)
        half_extension == extension_needed \div 2
        new_start == peak.start - half_extension
        new_end == peak.end + (extension_needed - half_extension)
    IN  IF new_start < 0
        THEN Peak(peak.chrom, 0, L, peak.score, peak.peak_id)
        ELSE Peak(peak.chrom, new_start, new_end, peak.score, peak.peak_id)

\* faulty variant of split_iter: a last piece that would pass peak.end is dropped
\* instead of moved back
split_iter_drop_tail(peak, L, current_pos, acc) ==
    IF current_pos + L > peak.end
    THEN [brk |-> TRUE, pos |-> current_pos, acc |-> acc]
    ELSE [brk |-> FALSE, pos |-> current_pos + L,
          acc |-> Append(acc, Peak(peak.chrom, current_pos, current_pos + L, peak.score,
                                   piece_id(peak.peak_id, Len(acc) + 1)))]

\* faulty variant of split_iter: after a piece was moved back the walk resumes
\* at its start instead of its end
split_iter_resume_at_start(peak, L, current_pos, acc) ==
    LET over == current_pos + L > peak.end
        piece_end == IF over THEN peak.end ELSE current_pos + L
        piece_start == IF over THEN peak.end - L ELSE current_pos
    IN  IF over /\ piece_start < peak.start
        THEN [brk |-> TRUE, pos |-> current_pos, acc |-> acc]
        ELSE [brk |-> FALSE, pos |-> IF over THEN piece_start ELSE piece_end,
              acc |-> Append(acc, Peak(peak.chrom, piece_start, piece_end, peak.score,
                                       piece_id(peak.peak_id, Len(acc) + 1)))]

\* one iteration of `while current_pos < peak.end`:
\* brk is the `break`, pos the next current_pos, acc the next uniform_peaks
split_iter(peak, L, current_pos, acc) ==
    LET over == current_pos + L > peak.end
        piece_end == IF over THEN peak.end ELSE current_pos + L
        piece_start == IF over THEN peak.end - L ELSE current_pos
    IN  IF over /\ piece_start < peak.start
        THEN [brk |-> TRUE, pos |-> current_pos, acc |-> acc]
        ELSE [brk |-> FALSE, pos |-> piece_end,
              acc |-> Append(acc, Peak(peak.chrom, piece_start, piece_end, peak.score,
                                       piece_id(peak.peak_id, Len(acc) + 1)))]

\* the while loop of the split branch, from current_pos on (L > 0)
RECURSIVE split_loop(_, _, _, _)
split_loop(peak, L, current_pos, acc) ==
    IF ~(current_pos < peak.end) THEN acc
    ELSE LET it == split_iter(peak, L, current_pos, acc)
         IN  IF it.brk THEN it.acc ELSE split_loop(peak, L, it.pos, it.acc)

\* the body of `for peak in peaks`: uniform_peaks after this peak
normalize_peak(acc, peak, L) ==
    IF PeakLen(peak) = L THEN Append(acc, peak)
    ELSE IF PeakLen(peak) < L THEN Append(acc, extended_peak(peak, L))
    ELSE split_loop(peak, L, peak.start, acc)

\* make_peaks_uniform_length(peaks, target_length): the returned list
make_peaks_uniform_length(ps, L) ==
    LET loop[i \in 0..Len(ps)] ==
            IF i = 0 THEN <<>> ELSE normalize_peak(loop[i - 1], ps[i], L)
    IN  loop[Len(ps)]

(***************************************************************************)
(* remove_overlapping_peaks                                                *)
(***************************************************************************)
\* key=lambda p: (p.chrom, p.start, -p.score)
ChromStartScoreKey(p) == Key(p.chrom, <<p.start, -p.score>>)

\* faulty variant of SortByChromStartScore: the sort left out
NotSortedByChromStartScore(ps) == ps

\* peaks.sort(key=lambda p: (p.chrom, p.start, -p.score))
SortByChromStartScore(ps) ==
    SortStable(ps, [i \in 1..Len(ps) |-> ChromStartScoreKey(ps[i])], FALSE)

\* faulty variant of resolve_step: the comparison of the scores reversed
resolve_step_lower_wins(st, next_peak) ==
    IF st.cur.chrom = next_peak.chrom /\ st.cur.end > next_peak.start
    THEN IF st.cur.score <= next_peak.score
         THEN st
         ELSE [out |-> st.out, cur |-> next_peak]
    ELSE [out |-> Append(st.out, st.cur), cur |-> next_peak]

\* faulty variant of resolve_step: an interval that starts where the current one
\* ends counts as overlapping
resolve_step_touching(st, next_peak) ==
    IF st.cur.chrom = next_peak.chrom /\ st.cur.end >= next_peak.start
    THEN IF st.cur.score >= next_peak.score
         THEN st
         ELSE [out |-> st.out, cur |-> next_peak]
    ELSE [out |-> Append(st.out, st.cur), cur |-> next_peak]

\* faulty variant of resolve_step: on equal scores the later interval is kept
resolve_step_later_on_tie(st, next_peak) ==
    IF st.cur.chrom = next_peak.chrom /\ st.cur.end > next_peak.start
    THEN IF st.cur.score > next_peak.score
         THEN st
         ELSE [out |-> st.out, cur |-> next_peak]
    ELSE [out |-> Append(st.out, st.cur), cur |-> next_peak]

\* one iteration of the sweep: st = [out |-> non_overlapping, cur |-> current_peak]
resolve_step(st, next_peak) ==
    IF st.cur.chrom = next_peak.chrom /\ st.cur.end > next_peak.start
    THEN IF st.cur.score >= next_peak.score
         THEN st
         ELSE [out |-> st.out, cur |-> next_peak]
    ELSE [out |-> Append(st.out, st.cur), cur |-> next_peak]

\* remove_overlapping_peaks(peaks): the returned list
remove_overlapping_peaks(ps) ==
    IF ps = <<>> THEN <<>>
    ELSE LET s == SortByChromStartScore(ps)
             sweep[i \in 1..Len(s)] ==
                 IF i = 1 THEN [out |-> <<>>, cur |-> s[1]]
                 ELSE resolve_step(sweep[i - 1], s[i])
             last == sweep[Len(s)]
         IN  Append(last.out, last.cur)

(***************************************************************************)
(* is_main_chromosome and read_peak_file                                   *)
(***************************************************************************)
Digits == {"0", "1", "2", "3", "4", "5", "6", "7", "8", "9"}

\* the value of one decimal digit
DigitVal(c) == Ord(c) - Ord("0")

\* str.isdigit()
isdigit(str) == str # <<>> /\ \A i \in 1..Len(str) : str[i] \in Digits

\* int(str) for a string of decimal digits (leading zeros are accepted)
int(str) ==
    LET val[i \in 0..Len(str)] ==
            IF i = 0 THEN 0 ELSE (val[i - 1] * 10) + DigitVal(str[i])
    IN  val[Len(str)]

\* str.startswith('chr')
startswith_chr(str) ==
    Len(str) >= 3 /\ str[1] = "c" /\ str[2] = "h" /\ str[3] = "r"

\* is_main_chromosome(chrom)
is_main_chromosome(chrom) ==
    IF startswith_chr(chrom)
    THEN LET chrom_part == SubSeq(chrom, 4, Len(chrom))
         IN  IF isdigit(chrom_part)
             THEN 1 <= int(chrom_part) /\ int(chrom_part) <= 22
             ELSE chrom_part \in {<<"X">>, <<"Y">>}
    ELSE FALSE

\* the characters of a field as one string
RECURSIVE StrOf(_)
StrOf(field) == IF field = <<>> THEN "" ELSE Head(field) \o StrOf(Tail(field))

\* line.strip() followed by line.split('\t'), on a line given as its
\* tab-separated fields (no field holds white space): the tabs stripped at both
\* ends are the empty fields there; a line of empty fields only strips to ''
RECURSIVE lstrip_fields(_)
lstrip_fields(fields) ==
    IF fields # <<>> /\ Head(fields) = <<>> THEN lstrip_fields(Tail(fields))
    ELSE fields

RECURSIVE rstrip_fields(_)
rstrip_fields(fields) ==
    IF fields # <<>> /\ fields[Len(fields)] = <<>>
    THEN rstrip_fields(SubSeq(fields, 1, Len(fields) - 1))
    ELSE fields

strip_split(fields) == rstrip_fields(lstrip_fields(fields))

\* int(parts[i]) and float(parts[4]) raise ValueError unless the field is a
\* number; over the characters of the model a number is a string of digits
is_number(field) == isdigit(field)

\* faulty variant of parse_line: ValueError is not caught and leaves read_peak_file
parse_line_uncaught(fields) ==
    LET parts == strip_split(fields)
    IN  IF parts = <<>> THEN [kind |-> "blank"]
        ELSE IF Len(parts) >= 4
        THEN IF \/ ~is_number(parts[2])
                \/ ~is_number(parts[3])
                \/ (Len(parts) > 4 /\ ~is_number(parts[5]))
             THEN [kind |-> "raise"]
             ELSE IF is_main_chromosome(parts[1])
             THEN [kind |-> "peak",
                   peak |-> Peak(parts[1], int(parts[2]), int(parts[3]),
                                 IF Len(parts) > 4 THEN int(parts[5]) ELSE 0,
                                 StrOf(parts[4]))]
             ELSE [kind |-> "filtered"]
        ELSE [kind |-> "malformed"]

\* the body of the loop over the lines: what one line contributes.
\* blank: `continue`; malformed: fewer than 4 fields, warning; error:
\* ValueError caught, warning; filtered: not a main chromosome; peak: appended
parse_line(fields) ==
    LET parts == strip_split(fields)
    IN  IF parts = <<>> THEN [kind |-> "blank"]
        ELSE IF Len(parts) >= 4
        THEN IF \/ ~is_number(parts[2])
                \/ ~is_number(parts[3])
                \/ (Len(parts) > 4 /\ ~is_number(parts[5]))
             THEN [kind |-> "error"]
             ELSE IF is_main_chromosome(parts[1])
             THEN [kind |-> "peak",
                   peak |-> Peak(parts[1], int(parts[2]), int(parts[3]),
                                 IF Len(parts) > 4 THEN int(parts[5]) ELSE 0,
                                 StrOf(parts[4]))]
             ELSE [kind |-> "filtered"]
        ELSE [kind |-> "malformed"]

\* the list `peaks` after the loop over the lines
parsed_peaks(ls) ==
    LET loop[i \in 0..Len(ls)] ==
            IF i = 0 THEN <<>>
            ELSE IF parse_line(ls[i]).kind = "peak"
                 THEN Append(loop[i - 1], parse_line(ls[i]).peak)
                 ELSE loop[i - 1]
    IN  loop[Len(ls)]

\* faulty variant of SortByScoreDesc: ascending sort, then reversed (equal scores end
\* up in reverse order)
SortByScoreAscReversed(ps) ==
    LET asc == SortStable(ps, [i \in 1..Len(ps) |-> Key(<<>>, <<ps[i].score>>)], FALSE)
    IN  [i \in 1..Len(ps) |-> asc[Len(ps) + 1 - i]]

\* peaks.sort(key=lambda p: p.score, reverse=True)
SortByScoreDesc(ps) ==
    SortStable(ps, [i \in 1..Len(ps) |-> Key(<<>>, <<ps[i].score>>)], TRUE)

\* peaks[:k], the slice of Python (a negative k counts from the end)
SliceTo(ps, k) ==
    IF k >= 0 THEN SubSeq(ps, 1, Min2(k, Len(ps)))
    ELSE SubSeq(ps, 1, Max2(Len(ps) + k, 0))

\* the cap: sort by score and truncate when there are more than K peaks
cap_peaks(ps, K) ==
    IF Len(ps) > K THEN SliceTo(SortByScoreDesc(ps), K) ELSE ps

\* read_peak_file(filename, max_peaks_per_sample) on a file with lines ls
read_peak_file(ls, K) ==
    IF \E i \in 1..Len(ls) : parse_line(ls[i]).kind = "raise"
    THEN [raised |-> TRUE, peaks |-> <<>>]
    ELSE [raised |-> FALSE, peaks |-> cap_peaks(parsed_peaks(ls), K)]

(***************************************************************************)
(* main                                                                    *)
(***************************************************************************)
\* peaks_by_chrom[peak.chrom].append(peak): the groups in insertion order
group_append(groups, peak) ==
    IF \E i \in 1..Len(groups) : groups[i].chrom = peak.chrom
    THEN [i \in 1..Len(groups) |->
            IF groups[i].chrom = peak.chrom
            THEN [groups[i] EXCEPT !.peaks = Append(@, peak)]
            ELSE groups[i]]
    ELSE Append(groups, [chrom |-> peak.chrom, peaks |-> <<peak>>])

\* the loop filling peaks_by_chrom from all_peaks
group_by_chrom(ps) ==
    LET loop[i \in 0..Len(ps)] ==
            IF i = 0 THEN <<>> ELSE group_append(loop[i - 1], ps[i])
    IN  loop[Len(ps)]

\* the loop over peak_files: all_peaks after the files were read in the order
\* given
read_all(files, K) ==
    LET loop[i \in 0..Len(files)] ==
            IF i = 0 THEN <<>> ELSE loop[i - 1] \o read_peak_file(files[i], K).peaks
    IN  loop[Len(files)]

\* the loop over peaks_by_chrom.items(): processed_peaks after the groups were
\* merged and normalized in the order given (target_length > 0)
process_groups(groups, D, L) ==
    LET loop[i \in 0..Len(groups)] ==
            IF i = 0 THEN <<>>
            ELSE loop[i - 1]
                    \o make_peaks_uniform_length(merge_close_peaks(groups[i].peaks, D), L)
    IN  loop[Len(groups)]

\* the optional overlap removal and the final sort
resolve_and_sort(ps, remove_overlaps) ==
    SortByChromStart(IF remove_overlaps THEN remove_overlapping_peaks(ps) ELSE ps)

\* The split loop of make_peaks_uniform_length never ends for target_length
\* <= 0 once entered: piece_end = current_pos + target_length never passes
\* peak.end, so a piece is appended and current_pos does not advance.
split_diverges(peak, L) ==
    PeakLen(peak) > L /\ L <= 0 /\ peak.start < peak.end

normalize_diverges(ps, L) == \E i \in 1..Len(ps) : split_diverges(ps[i], L)

\* f"{i+1:06d}"
zfill6(n) ==
    LET str == ToString(n)
    IN  CASE Len(str) = 1 -> "00000" \o str
          [] Len(str) = 2 -> "0000" \o str
          [] Len(str) = 3 -> "000" \o str
          [] Len(str) = 4 -> "00" \o str
          [] Len(str) = 5 -> "0" \o str
          [] OTHER -> str

\* faulty variant of assign_ids: every record is renamed, also one that has an id
assign_ids_all(ps) ==
    [i \in 1..Len(ps) |-> [ps[i] EXCEPT !.peak_id = "unified_peak_" \o zfill6(i)]]

\* the write loop's `peak.peak_id = f"unified_peak_{i+1:06d}"` on the records
\* without an id (the records of processed_peaks themselves are changed)
assign_ids(ps) ==
    [i \in 1..Len(ps) |->
        IF ps[i].peak_id = ""
        THEN [ps[i] EXCEPT !.peak_id = "unified_peak_" \o zfill6(i)]
        ELSE ps[i]]

\* Peak.to_bed_line: the fields of the line
to_bed_line(p) == <<p.chrom, p.start, p.end, p.peak_id, p.score>>

(***************************************************************************)
(* Inputs.                                                                 *)
(***************************************************************************)
Chr1 == <<"c", "h", "r", "1">>
Chr2 == <<"c", "h", "r", "2">>
Chr01 == <<"c", "h", "r", "0", "1">>
ChrX == <<"c", "h", "r", "X">>
ChrY == <<"c", "h", "r", "Y">>
Chrx == <<"c", "h", "r", "x">>
ChrM == <<"c", "h", "r", "M">>
Ids == {"", "a"}

\* the scores and ids of the merger's intervals: without an id at either score,
\* or with an id of their own
ScoredIds ==
    {[score |-> 1, id |-> ""], [score |-> 1, id |-> "a"],
     [score |-> 2, id |-> ""], [score |-> 2, id |-> "b"]}

\* the merger's intervals: valid (start < end), on one chromosome
MergeInputs ==
    {p \in {Peak(Chr1, s, e, t.score, t.id) :
                s \in 0..MaxCoord, e \in 0..MaxCoord, t \in ScoredIds} :
        p.start < p.end}

\* the normalizer's intervals: valid, start >= 0, on one chromosome
NormInputs ==
    {Peak(Chr1, s, s + n, 1, id) : s \in 0..MaxStart, n \in 1..MaxLen, id \in Ids}

\* the resolver's intervals: valid, on two chromosomes, with three scores; the
\* second chromosome has one position, enough to place an interval of another
\* chromosome before, between or after those of the first
ResolveInputs ==
    {Peak(Chr1, s, s + n, sc, "a") : s \in 0..MaxStart, n \in 1..2, sc \in 1..3}
        \cup {Peak(Chr2, 0, 2, sc, "a") : sc \in 1..2}

\* the intervals of the resolver taken one step at a time: two chromosomes,
\* starts that tie, scores that tie
SweepInputs ==
    {Peak(Chr1, s, s + n, sc, "a") : s \in 0..1, n \in 1..2, sc \in 1..2}
        \cup {Peak(Chr2, 0, 2, 1, "a")}

\* the intervals of the normalizer taken one step at a time
SplitInputs == {Peak(Chr1, s, s + n, 1, "a") : s \in 0..1, n \in 1..MaxSplitLen}

\* the intervals of the merger on two chromosomes
CrossInputs ==
    {Peak(c, s, s + n, 1, "a") : c \in {Chr1, Chr2}, s \in 0..2, n \in 1..2}

\* the lines of a file, each given as its tab-separated fields:
\* well-formed lines of chr1 with two ids and no score or one of two scores,
\* well-formed lines of other chromosome names, and lines that are blank, short
\* (3 fields, or 4 with an empty last one), or hold a non-numeric start or score,
\* and a line of four numeric fields whose start is past its end
ReadInputs ==
    {<<Chr1, <<"1">>, <<"3">>, id>> \o sc :
        id \in {<<"a">>, <<"b">>}, sc \in {<<>>, << <<"1">> >>, << <<"2">> >>}}
    \cup {<<c, <<"2">>, <<"1", "0">>, <<"a">>, <<"2">>>> : c \in {ChrX, Chr01, Chrx, ChrM}}
    \cup {<< <<>> >>,
           <<Chr1, <<"3">>, <<"1">>, <<"a">>>>,
           <<Chr1, <<"1">>, <<"3">>>>,
           <<Chr1, <<"1">>, <<"3">>, <<>>>>,
           <<Chr1, <<"x">>, <<"3">>, <<"a">>>>,
           <<Chr1, <<"1">>, <<"3">>, <<"a">>, <<"x">>>>}

\* the files of a run: two nearby chr1 intervals around a malformed line; a
\* chr2 interval and a chr1 interval without an id; a file whose only line is
\* of a chromosome the filter drops; an empty file; two short chr1 intervals
\* one position apart
FileA ==
    << <<Chr1, <<"1">>, <<"3">>, <<"a">>, <<"1">>>>,
       <<Chr1, <<"x">>, <<"3">>, <<"a">>>>,
       <<Chr1, <<"4">>, <<"6">>, <<"b">>, <<"2">>>> >>
FileB ==
    << <<Chr2, <<"0">>, <<"5">>, <<"c">>, <<"2">>>>,
       <<Chr1, <<"2">>, <<"4">>, <<>>, <<"1">>>> >>
FileM == << <<ChrM, <<"2">>, <<"1", "0">>, <<"a">>, <<"2">>>> >>
FileE == <<>>
FileC ==
    << <<Chr1, <<"0">>, <<"1">>, <<"d">>, <<"1">>>>,
       <<Chr1, <<"2">>, <<"3">>, <<"e">>, <<"2">>>> >>
SampleFiles == {FileA, FileB, FileM, FileE, FileC}

\* the command lines of a run, valid and invalid
ArgSets ==
    [target_length : 0..MaxRunTarget,
     merge_distance : -1..MaxDist,
     max_peaks_per_sample : 0..MaxCap,
     remove_overlaps : BOOLEAN]

MergeIdle ==
    max_distance = 0 /\ merged_peaks = <<>> /\ merged_again = <<>> /\ distance = <<>>
NormIdle ==
    target_length = 0 /\ uniform_peaks = <<>> /\ idx = 0 /\ split_pos = 0
ResolveIdle == non_overlapping = <<>> /\ current_peak = <<>>
ReadIdle == lines = <<>> /\ max_peaks_per_sample = 0 /\ raised = FALSE
MainIdle ==
    /\ args = <<>> /\ peak_files = <<>> /\ all_peaks = <<>> /\ peaks_by_chrom = <<>>
    /\ processed_peaks = <<>> /\ output = <<>> /\ exit_status = 0

(***************************************************************************)
(* Calls of merge_close_peaks on one chromosome's intervals, and a second  *)
(* call on the list the first returned.                                    *)
(***************************************************************************)
InitMerge ==
    /\ pc = "merge_call"
    /\ \E n \in 0..MaxPeaks : peaks \in [1..n -> MergeInputs]
    /\ max_distance \in 0..MaxDist
    /\ merged_peaks = <<>>
    /\ merged_again = <<>>
    /\ distance = <<>>
    /\ NormIdle /\ ResolveIdle /\ ReadIdle /\ MainIdle

MergeCall ==
    /\ pc = "merge_call"
    /\ merged_peaks' = merge_close_peaks(peaks, max_distance)
    /\ peaks' = SortByChromStart(peaks)
    /\ pc' = "merge_returned"
    /\ UNCHANGED <<max_distance, merged_again, distance, normVars, resolveVars,
                   readVars, mainVars>>

MergeAgain ==
    /\ pc = "merge_returned"
    /\ merged_again' = merge_close_peaks(merged_peaks, max_distance)
    /\ pc' = "merge_twice"
    /\ UNCHANGED <<peaks, max_distance, merged_peaks, distance, normVars, resolveVars,
                   readVars, mainVars>>

NextMerge == MergeCall \/ MergeAgain

SpecMerge == InitMerge /\ [][NextMerge]_vars

(***************************************************************************)
(* Intervals of two chromosomes given to Peak.distance_to and              *)
(* Peak.merge_with (the first two of the list) or to merge_close_peaks.    *)
(***************************************************************************)
InitCross ==
    /\ pc = "cross_call"
    /\ \E n \in 0..MaxCrossPeaks : peaks \in [1..n -> CrossInputs]
    /\ max_distance \in 0..MaxDist
    /\ merged_peaks = <<>>
    /\ merged_again = <<>>
    /\ distance = <<>>
    /\ NormIdle /\ ResolveIdle /\ ReadIdle /\ MainIdle

\* peaks[0].distance_to(peaks[1])
PairDistance ==
    /\ pc = "cross_call"
    /\ Len(peaks) >= 2
    /\ distance' = <<distance_to(peaks[1], peaks[2])>>
    /\ pc' = "pair_distance"
    /\ UNCHANGED <<peaks, max_distance, merged_peaks, merged_again, normVars,
                   resolveVars, readVars, mainVars>>

\* peaks[0].merge_with(peaks[1])
PairMerge ==
    /\ pc = "pair_distance"
    /\ IF merge_with_raises(peaks[1], peaks[2])
       THEN raised' = TRUE /\ merged_peaks' = merged_peaks
       ELSE raised' = raised /\ merged_peaks' = <<merge_with(peaks[1], peaks[2])>>
    /\ pc' = "pair_merged"
    /\ UNCHANGED <<peaks, max_distance, merged_again, distance, normVars, resolveVars,
                   lines, max_peaks_per_sample, mainVars>>

\* merge_close_peaks(peaks, max_distance)
CrossMerge ==
    /\ pc = "cross_call"
    /\ raised' = merge_close_peaks_raises(peaks, max_distance)
    /\ merged_peaks' = IF merge_close_peaks_raises(peaks, max_distance) THEN <<>>
                       ELSE merge_close_peaks(peaks, max_distance)
    /\ peaks' = SortByChromStart(peaks)
    /\ pc' = "cross_returned"
    /\ UNCHANGED <<max_distance, merged_again, distance, normVars, resolveVars,
                   lines, max_peaks_per_sample, mainVars>>

NextCross == PairDistance \/ PairMerge \/ CrossMerge

SpecCross == InitCross /\ [][NextCross]_vars

(***************************************************************************)
(* A call of make_peaks_uniform_length, one iteration of its for loop at a *)
(* time.                                                                   *)
(***************************************************************************)
InitNorm ==
    /\ pc = "norm_loop"
    /\ \E n \in 0..MaxPeaks : peaks \in [1..n -> NormInputs]
    /\ target_length \in 1..MaxTarget
    /\ uniform_peaks = <<>>
    /\ idx = 0
    /\ split_pos = 0
    /\ MergeIdle /\ ResolveIdle /\ ReadIdle /\ MainIdle

NormalizePeak ==
    /\ pc = "norm_loop"
    /\ idx < Len(peaks)
    /\ uniform_peaks' = normalize_peak(uniform_peaks, peaks[idx + 1], target_length)
    /\ idx' = idx + 1
    /\ UNCHANGED <<pc, peaks, target_length, split_pos, mergeVars, resolveVars,
                   readVars, mainVars>>

NormReturn ==
    /\ pc = "norm_loop"
    /\ idx = Len(peaks)
    /\ pc' = "norm_returned"
    /\ UNCHANGED <<peaks, normVars, mergeVars, resolveVars, readVars, mainVars>>

NextNorm == NormalizePeak \/ NormReturn

SpecNorm == InitNorm /\ [][NextNorm]_vars

(***************************************************************************)
(* A call of make_peaks_uniform_length with the split loop taken one       *)
(* iteration at a time. The code runs on without waiting for anything, so  *)
(* a step that can be taken is taken.                                      *)
(***************************************************************************)
InitSplit ==
    /\ pc = "split_for"
    /\ \E n \in 0..MaxSplitPeaks : peaks \in [1..n -> SplitInputs]
    /\ target_length \in 1..MaxTarget
    /\ uniform_peaks = <<>>
    /\ idx = 0
    /\ split_pos = 0
    /\ MergeIdle /\ ResolveIdle /\ ReadIdle /\ MainIdle

\* the head of one iteration of `for peak in peaks`: the pass and extend
\* branches whole, or `current_pos = peak.start` of the split branch
SplitFor ==
    /\ pc = "split_for"
    /\ idx < Len(peaks)
    /\ IF PeakLen(peaks[idx + 1]) > target_length
       THEN /\ split_pos' = peaks[idx + 1].start
            /\ pc' = "split_while"
            /\ UNCHANGED <<uniform_peaks, idx>>
       ELSE /\ uniform_peaks' = normalize_peak(uniform_peaks, peaks[idx + 1],
                                               target_length)
            /\ idx' = idx + 1
            /\ UNCHANGED <<pc, split_pos>>
    /\ UNCHANGED <<peaks, target_length, mergeVars, resolveVars, readVars, mainVars>>

\* the test of `while current_pos < peak.end` and one iteration of its body
SplitWhile ==
    /\ pc = "split_while"
    /\ IF split_pos < peaks[idx + 1].end
       THEN LET it == split_iter(peaks[idx + 1], target_length, split_pos,
                                 uniform_peaks)
            IN  /\ uniform_peaks' = it.acc
                /\ split_pos' = it.pos
                /\ pc' = IF it.brk THEN "split_for" ELSE pc
                /\ idx' = IF it.brk THEN idx + 1 ELSE idx
       ELSE /\ pc' = "split_for"
            /\ idx' = idx + 1
            /\ UNCHANGED <<uniform_peaks, split_pos>>
    /\ UNCHANGED <<peaks, target_length, mergeVars, resolveVars, readVars, mainVars>>

\* `return uniform_peaks`
SplitReturn ==
    /\ pc = "split_for"
    /\ idx = Len(peaks)
    /\ pc' = "split_returned"
    /\ UNCHANGED <<peaks, normVars, mergeVars, resolveVars, readVars, mainVars>>

NextSplit == SplitFor \/ SplitWhile \/ SplitReturn

SpecSplit == InitSplit /\ [][NextSplit]_vars /\ WF_vars(NextSplit)

(***************************************************************************)
(* A call of remove_overlapping_peaks.                                     *)
(***************************************************************************)
InitResolve ==
    /\ pc = "resolve_call"
    /\ \E n \in 0..MaxResolvePeaks : peaks \in [1..n -> ResolveInputs]
    /\ non_overlapping = <<>>
    /\ current_peak = <<>>
    /\ MergeIdle /\ NormIdle /\ ReadIdle /\ MainIdle

ResolveCall ==
    /\ pc = "resolve_call"
    /\ non_overlapping' = remove_overlapping_peaks(peaks)
    /\ peaks' = SortByChromStartScore(peaks)
    /\ pc' = "resolve_returned"
    /\ UNCHANGED <<current_peak, mergeVars, normVars, readVars, mainVars>>

NextResolve == ResolveCall

SpecResolve == InitResolve /\ [][NextResolve]_vars

(***************************************************************************)
(* A call of remove_overlapping_peaks, one step at a time: the sort, each   *)
(* iteration of `for next_peak in peaks[1:]`, the final append.            *)
(***************************************************************************)
InitSweep ==
    /\ pc = "sweep_sort"
    /\ \E n \in 0..MaxSweepPeaks : peaks \in [1..n -> SweepInputs]
    /\ non_overlapping = <<>>
    /\ current_peak = <<>>
    /\ MergeIdle /\ NormIdle /\ ReadIdle /\ MainIdle

\* `if not peaks: return []`, the sort, `current_peak = peaks[0]`
SweepSort ==
    /\ pc = "sweep_sort"
    /\ IF peaks = <<>>
       THEN /\ pc' = "sweep_returned"
            /\ UNCHANGED <<peaks, current_peak, idx>>
       ELSE /\ peaks' = SortByChromStartScore(peaks)
            /\ current_peak' = <<peaks'[1]>>
            /\ idx' = 1
            /\ pc' = "sweep_loop"
    /\ UNCHANGED <<non_overlapping, target_length, uniform_peaks, split_pos, mergeVars,
                   readVars, mainVars>>

\* one iteration of `for next_peak in peaks[1:]`
SweepStep ==
    /\ pc = "sweep_loop"
    /\ idx < Len(peaks)
    /\ LET st == resolve_step([out |-> non_overlapping, cur |-> current_peak[1]],
                              peaks[idx + 1])
       IN  /\ non_overlapping' = st.out
           /\ current_peak' = <<st.cur>>
    /\ idx' = idx + 1
    /\ UNCHANGED <<pc, peaks, target_length, uniform_peaks, split_pos, mergeVars,
                   readVars,
                   mainVars>>

\* `non_overlapping.append(current_peak)` and the return
SweepReturn ==
    /\ pc = "sweep_loop"
    /\ idx = Len(peaks)
    /\ non_overlapping' = Append(non_overlapping, current_peak[1])
    /\ pc' = "sweep_returned"
    /\ UNCHANGED <<peaks, current_peak, normVars, mergeVars, readVars, mainVars>>

NextSweep == SweepSort \/ SweepStep \/ SweepReturn

SpecSweep == InitSweep /\ [][NextSweep]_vars

(***************************************************************************)
(* A call of read_peak_file.                                               *)
(***************************************************************************)
InitRead ==
    /\ pc = "read_call"
    /\ \E n \in 0..MaxLines : lines \in [1..n -> ReadInputs]
    /\ max_peaks_per_sample \in 1..MaxCap
    /\ peaks = <<>>
    /\ raised = FALSE
    /\ MergeIdle /\ NormIdle /\ ResolveIdle /\ MainIdle

ReadCall ==
    /\ pc = "read_call"
    /\ peaks' = read_peak_file(lines, max_peaks_per_sample).peaks
    /\ raised' = read_peak_file(lines, max_peaks_per_sample).raised
    /\ pc' = "read_returned"
    /\ UNCHANGED <<lines, max_peaks_per_sample, mergeVars, normVars, resolveVars,
                   mainVars>>

NextRead == ReadCall

SpecRead == InitRead /\ [][NextRead]_vars

(***************************************************************************)
(* A run of main.                                                          *)
(***************************************************************************)
NotWritten == [written |-> FALSE, lines |-> <<>>]

InitMain ==
    /\ pc = "main_glob"
    /\ args \in ArgSets
    /\ \E n \in 0..MaxFiles : peak_files \in [1..n -> SampleFiles]
    /\ all_peaks = <<>>
    /\ peaks_by_chrom = <<>>
    /\ processed_peaks = <<>>
    /\ output = NotWritten
    /\ exit_status = 0
    /\ idx = 0
    /\ peaks = <<>>
    /\ target_length = 0 /\ uniform_peaks = <<>> /\ split_pos = 0
    /\ MergeIdle /\ ResolveIdle /\ ReadIdle

\* peak_files = glob.glob(...); `return 1` when there is none
FindFiles ==
    /\ pc = "main_glob"
    /\ IF peak_files = <<>>
       THEN pc' = "main_exit" /\ exit_status' = 1
       ELSE pc' = "main_read" /\ exit_status' = exit_status
    /\ UNCHANGED <<peaks, mergeVars, normVars, resolveVars, readVars, args, peak_files,
                   all_peaks, peaks_by_chrom, processed_peaks, output>>

\* one iteration of `for filename in peak_files`
ReadFile ==
    /\ pc = "main_read"
    /\ idx < Len(peak_files)
    /\ all_peaks' = all_peaks
            \o read_peak_file(peak_files[idx + 1], args.max_peaks_per_sample).peaks
    /\ idx' = idx + 1
    /\ UNCHANGED <<pc, peaks, mergeVars, target_length, uniform_peaks, split_pos,
                   resolveVars,
                   readVars, args, peak_files, peaks_by_chrom, processed_peaks,
                   output, exit_status>>

\* the loop grouping all_peaks by chromosome
GroupByChrom ==
    /\ pc = "main_read"
    /\ idx = Len(peak_files)
    /\ peaks_by_chrom' = group_by_chrom(all_peaks)
    /\ idx' = 0
    /\ pc' = "main_process"
    /\ UNCHANGED <<peaks, mergeVars, target_length, uniform_peaks, split_pos,
                   resolveVars,
                   readVars, args, peak_files, all_peaks, processed_peaks, output,
                   exit_status>>

\* one iteration of `for chrom, peaks in peaks_by_chrom.items()`: merge, then
\* normalize (which does not return when its split loop never ends)
ProcessChrom ==
    /\ pc = "main_process"
    /\ idx < Len(peaks_by_chrom)
    /\ LET merged == merge_close_peaks(peaks_by_chrom[idx + 1].peaks, args.merge_distance)
       IN  IF normalize_diverges(merged, args.target_length)
           THEN /\ pc' = "main_hang"
                /\ UNCHANGED <<idx, processed_peaks>>
           ELSE /\ processed_peaks' = processed_peaks
                        \o make_peaks_uniform_length(merged, args.target_length)
                /\ idx' = idx + 1
                /\ pc' = pc
    /\ UNCHANGED <<peaks, mergeVars, target_length, uniform_peaks, split_pos,
                   resolveVars,
                   readVars, args, peak_files, all_peaks, peaks_by_chrom, output,
                   exit_status>>

\* `if args.remove_overlaps:` and the final sort
ResolveAndSort ==
    /\ pc = "main_process"
    /\ idx = Len(peaks_by_chrom)
    /\ processed_peaks' =
            SortByChromStart(IF args.remove_overlaps
                             THEN remove_overlapping_peaks(processed_peaks)
                             ELSE processed_peaks)
    /\ pc' = "main_write"
    /\ UNCHANGED <<peaks, mergeVars, normVars, resolveVars, readVars, args, peak_files,
                   all_peaks, peaks_by_chrom, output, exit_status>>

\* `with open(args.output, 'w')`: the file is created and every record written,
\* after an id is assigned to a record that has none
WriteOutput ==
    /\ pc = "main_write"
    /\ processed_peaks' = assign_ids(processed_peaks)
    /\ output' = [written |-> TRUE,
                  lines |-> [i \in 1..Len(processed_peaks) |->
                                to_bed_line(assign_ids(processed_peaks)[i])]]
    /\ pc' = "main_stats"
    /\ UNCHANGED <<peaks, mergeVars, normVars, resolveVars, readVars, args, peak_files,
                   all_peaks, peaks_by_chrom, exit_status>>

\* the summary statistics: sum(lengths) / len(lengths) raises ZeroDivisionError
\* for an empty list, which ends the process with status 1; else `return 0`
Statistics ==
    /\ pc = "main_stats"
    /\ exit_status' = IF processed_peaks = <<>> THEN 1 ELSE 0
    /\ pc' = "main_exit"
    /\ UNCHANGED <<peaks, mergeVars, normVars, resolveVars, readVars, args, peak_files,
                   all_peaks, peaks_by_chrom, processed_peaks, output>>

NextMain ==
    \/ FindFiles
    \/ ReadFile
    \/ GroupByChrom
    \/ ProcessChrom
    \/ ResolveAndSort
    \/ WriteOutput
    \/ Statistics

SpecMain == InitMain /\ [][NextMain]_vars

(***************************************************************************)
(* Properties of the normalizer.                                           *)
(***************************************************************************)
\* C1: every record of uniform_peaks, whether passed through, extended or
\* split off, has end - start = target_length (target_length > 0).
UniformLength ==
    \A i \in 1..Len(uniform_peaks) :
        uniform_peaks[i].end - uniform_peaks[i].start = target_length

\* C1 witness: a returned list holding an extended record and the pieces of a
\* split one.
UniformLengthWitness ==
    /\ pc = "norm_returned"
    /\ Len(peaks) = 2
    /\ PeakLen(peaks[1]) < target_length
    /\ PeakLen(peaks[2]) > target_length
    /\ Len(uniform_peaks) >= 3

\* the records one iteration of the for loop appends
Appended == SubSeq(uniform_peaks', Len(uniform_peaks) + 1, Len(uniform_peaks'))

\* w covers [p.start, p.end) with windows of length L: the first starts at
\* p.start, the last ends at p.end, none leaves the interval, consecutive
\* windows advance without a gap, and only the last may overlap its predecessor.
CoversExactly(w, p, L) ==
    /\ Len(w) >= 1
    /\ \A i \in 1..Len(w) :
            /\ w[i].end - w[i].start = L
            /\ p.start <= w[i].start /\ w[i].end <= p.end
    /\ w[1].start = p.start
    /\ w[Len(w)].end = p.end
    /\ \A i \in 1..(Len(w) - 1) :
            /\ w[i].start < w[i + 1].start
            /\ w[i + 1].start <= w[i].end
            /\ (w[i + 1].start < w[i].end => i = Len(w) - 1)

\* C5: the iteration that splits an interval longer than target_length appends
\* windows of exactly target_length that cover [start, end) without a gap, with
\* at most the last window overlapping its predecessor.
SplitCovers ==
    [][(pc = "norm_loop" /\ idx < Len(peaks)
            /\ PeakLen(peaks[idx + 1]) > target_length)
        => CoversExactly(Appended, peaks[idx + 1], target_length)]_vars

\* C5 witness: one interval split into three or more windows, the last one
\* moved back over its predecessor.
SplitCoversWitness ==
    /\ pc = "norm_returned"
    /\ Len(peaks) = 1
    /\ PeakLen(peaks[1]) > target_length
    /\ Len(uniform_peaks) >= 3
    /\ uniform_peaks[Len(uniform_peaks)].start
           < uniform_peaks[Len(uniform_peaks) - 1].end

\* r is the extension of p to length L: low = floor(deficit / 2) positions
\* before and the rest after, or [0, L) when that would start below 0
ExtensionOf(r, p, L) ==
    LET deficit == L - PeakLen(p)
        low == deficit \div 2
        high == deficit - low
    IN  /\ r.chrom = p.chrom /\ r.peak_id = p.peak_id /\ r.score = p.score
        /\ IF p.start - low >= 0
           THEN r.start = p.start - low /\ r.end = p.end + high
           ELSE r.start = 0 /\ r.end = L
        /\ 0 <= r.start /\ r.start <= p.start /\ p.end <= r.end

\* C17: the iteration over an interval shorter than target_length (start >= 0)
\* appends exactly one record, with the same id and score, extended by
\* floor(deficit / 2) before and the rest after, or [0, target_length) when the
\* start would be negative; it contains the interval and starts at 0 or later.
ExtendedAroundInterval ==
    [][(pc = "norm_loop" /\ idx < Len(peaks)
            /\ PeakLen(peaks[idx + 1]) < target_length)
        => /\ Len(Appended) = 1
           /\ ExtensionOf(Appended[1], peaks[idx + 1], target_length)]_vars

\* C17 witness: with target length 3, [0,1) was extended to [0,3) by the clamp
\* and an interval of length 2 by one position after its end.
ExtendedAroundIntervalWitness ==
    /\ pc = "norm_returned"
    /\ target_length = 3
    /\ Len(peaks) = 2
    /\ peaks[1].start = 0 /\ peaks[1].end = 1
    /\ PeakLen(peaks[2]) = 2 /\ peaks[2].start > 0
    /\ Len(uniform_peaks) = 2
    /\ uniform_peaks[1].start = 0 /\ uniform_peaks[1].end = 3
    /\ uniform_peaks[2].start = peaks[2].start
    /\ uniform_peaks[2].end = peaks[2].end + 1

\* C18: the k-th window appended for a split interval has the id formed from
\* the parent id and k, counted from 1 within that interval, whatever the
\* number of records appended for earlier intervals of the call.
PieceIdsCountWithinParent ==
    [][(pc = "norm_loop" /\ idx < Len(peaks)
            /\ PeakLen(peaks[idx + 1]) > target_length)
        => \A k \in 1..Len(Appended) :
                Appended[k].peak_id = piece_id(peaks[idx + 1].peak_id, k)]_vars

\* ceil(n / d) for positive d
Ceil(n, d) == (n + d - 1) \div d

\* the number of records the first n intervals yield: one for an interval of
\* length at most L, ceil(length / L) windows for a longer one
ExpectedRecords(n) ==
    LET count[i \in 0..n] ==
            IF i = 0 THEN 0
            ELSE count[i - 1]
                    + (IF PeakLen(peaks[i]) > target_length
                       THEN Ceil(PeakLen(peaks[i]), target_length) ELSE 1)
    IN  count[n]

\* C21: for target_length > 0 the call returns; each iteration of the split
\* loop of an interval longer than target_length emits one window and moves
\* current_pos strictly forward, and the loop ends after ceil(length /
\* target_length) windows.
SplitLoopTerminates ==
    /\ [][(pc = "split_while" /\ split_pos < peaks[idx + 1].end)
            => /\ split_pos' > split_pos
               /\ Len(uniform_peaks') = Len(uniform_peaks) + 1]_vars
    /\ [](pc \in {"split_for", "split_returned"}
            => Len(uniform_peaks) = ExpectedRecords(idx))
    /\ <>(pc = "split_returned")

\* C21 witness: the call returned after splitting an interval of length 7 with
\* target length 3 into three windows, the last one moved back.
SplitLoopTerminatesWitness ==
    /\ pc = "split_returned"
    /\ target_length = 3
    /\ Len(peaks) = 2
    /\ PeakLen(peaks[1]) = 1
    /\ PeakLen(peaks[2]) = 7
    /\ Len(uniform_peaks) = 4
    /\ uniform_peaks[4].start < uniform_peaks[3].end
    /\ split_pos = peaks[2].end

(***************************************************************************)
(* Properties of the merger.                                               *)
(***************************************************************************)
\* C2: the list returned for valid intervals of one chromosome and D >= 0 is
\* sorted by start, and adjacent records are more than D apart.
MergedApart ==
    pc \in {"merge_returned", "merge_twice"} =>
        \A i \in 1..(Len(merged_peaks) - 1) :
            /\ merged_peaks[i].start <= merged_peaks[i + 1].start
            /\ merged_peaks[i + 1].start - merged_peaks[i].end > max_distance

\* C2 witness: two records returned with a positive threshold.
MergedApartWitness ==
    /\ pc = "merge_returned"
    /\ max_distance >= 1
    /\ Len(merged_peaks) = 2

\* C3: merging the merged list again with the same threshold returns the same
\* records.
MergeIdempotent ==
    pc = "merge_twice" => merged_again = merged_peaks

\* C3 witness: a second call on a list in which the first call merged two
\* intervals that carry ids.
MergeIdempotentWitness ==
    /\ pc = "merge_twice"
    /\ Len(peaks) = 2
    /\ Len(merged_peaks) = 1
    /\ merged_peaks[1].peak_id # ""

\* the inputs that lie within the returned record m
Absorbed(m) ==
    {i \in 1..Len(peaks) :
        /\ peaks[i].chrom = m.chrom
        /\ m.start <= peaks[i].start
        /\ peaks[i].end <= m.end}

\* C15: every input interval lies within exactly one returned record, and each
\* returned record has the minimum start, the maximum end and the maximum score
\* of the inputs within it.
MergedAggregates ==
    pc \in {"merge_returned", "merge_twice"} =>
        /\ \A i \in 1..Len(peaks) :
                Cardinality({j \in 1..Len(merged_peaks) :
                                i \in Absorbed(merged_peaks[j])}) = 1
        /\ \A j \in 1..Len(merged_peaks) :
                LET m == merged_peaks[j]
                    A == Absorbed(m)
                IN  /\ \E i \in A : peaks[i].start = m.start
                    /\ \E i \in A : peaks[i].end = m.end
                    /\ \E i \in A : peaks[i].score = m.score
                    /\ \A i \in A : peaks[i].score <= m.score

\* C15 witness: two intervals one position apart, the later one with the
\* higher score, merged with D = 1 into one record.
MergedAggregatesWitness ==
    /\ pc = "merge_returned"
    /\ max_distance = 1
    /\ Len(peaks) = 2
    /\ peaks[1].end + 1 = peaks[2].start
    /\ peaks[1].score < peaks[2].score
    /\ Len(merged_peaks) = 1

\* the ids of ps joined left to right, the separator left out next to an
\* empty id
ConcatenatedIds(ps) ==
    LET join[i \in 1..Len(ps)] ==
            IF i = 1 THEN ps[1].peak_id
            ELSE IF join[i - 1] # "" /\ ps[i].peak_id # ""
                 THEN join[i - 1] \o "_" \o ps[i].peak_id
                 ELSE join[i - 1] \o ps[i].peak_id
    IN  join[Len(ps)]

\* the ids of ps joined left to right with "_"
JoinedIds(ps) ==
    LET join[i \in 1..Len(ps)] ==
            IF i = 1 THEN ps[1].peak_id
            ELSE join[i - 1] \o "_" \o ps[i].peak_id
    IN  join[Len(ps)]

\* C16 as stated: the id of the record into which the intervals were merged is
\* the ids of the operands, in sweep order, joined with "_", where an empty
\* operand id only omits the separator and a non-empty id is carried over.
MergedIdCarriesOperandIds ==
    (pc = "merge_returned" /\ Len(peaks) >= 2 /\ Len(merged_peaks) = 1) =>
        merged_peaks[1].peak_id = ConcatenatedIds(peaks)

\* C16 as amended: the id is the operands' ids in sweep order joined with "_"
\* when every operand has an id, and empty as soon as one operand's id is empty.
MergedIdJoinedOrEmpty ==
    (pc = "merge_returned" /\ Len(peaks) >= 2 /\ Len(merged_peaks) = 1) =>
        merged_peaks[1].peak_id =
            IF \A i \in 1..Len(peaks) : peaks[i].peak_id # ""
            THEN JoinedIds(peaks) ELSE ""

\* C16 witness: an interval with an id merged with a later one without: the
\* merged record has no id.
MergedIdJoinedOrEmptyWitness ==
    /\ pc = "merge_returned"
    /\ Len(peaks) = 2
    /\ peaks[1].peak_id = "b" /\ peaks[2].peak_id = ""
    /\ Len(merged_peaks) = 1
    /\ merged_peaks[1].peak_id = ""

\* the records of ps on chromosome c, in order
OnChrom(ps, c) == SelectSeq(ps, LAMBDA p : p.chrom = c)

\* intervals of two chromosomes were given
TwoChromosomes == \E i, j \in 1..Len(peaks) : peaks[i].chrom # peaks[j].chrom

\* the first two intervals are of different chromosomes
PairOfTwoChromosomes == Len(peaks) >= 2 /\ peaks[1].chrom # peaks[2].chrom

NoOverlapAfterResolve ==
    pc = "resolve_returned" =>
        \A i \in 1..Len(non_overlapping) : \A j \in (i + 1)..Len(non_overlapping) :
            non_overlapping[i].chrom = non_overlapping[j].chrom
                => non_overlapping[i].end <= non_overlapping[j].start

\* C4 witness: three intervals of one chromosome, one lost to an overlap, two
\* returned.
NoOverlapAfterResolveWitness ==
    /\ pc = "resolve_returned"
    /\ Len(peaks) = 3
    /\ \A i \in 1..3 : peaks[i].chrom = Chr1
    /\ Len(non_overlapping) = 2

\* a and b are on one chromosome and share a position
Overlap(a, b) == a.chrom = b.chrom /\ a.start < b.end /\ b.start < a.end

\* how often the record r occurs in seq
Occurrences(seq, r) == Cardinality({i \in 1..Len(seq) : seq[i] = r})

\* the input record peaks[i] was discarded: the call returned fewer records
\* equal to it than it was given
Discarded(i) ==
    Occurrences(non_overlapping, peaks[i]) < Occurrences(peaks, peaks[i])

\* C22: the returned records are input records, unchanged and no more often
\* than given; a discarded interval shares a position with another input
\* interval of the same chromosome whose score is at least as high, so an
\* interval that at most touches the others, or is alone on its chromosome, is
\* returned.
DiscardedOnlyIfBeaten ==
    pc = "resolve_returned" =>
        /\ \A k \in 1..Len(non_overlapping) :
                Occurrences(non_overlapping, non_overlapping[k])
                    <= Occurrences(peaks, non_overlapping[k])
        /\ \A i \in 1..Len(peaks) :
                Discarded(i) =>
                    \E j \in 1..Len(peaks) :
                        /\ j # i
                        /\ Overlap(peaks[j], peaks[i])
                        /\ peaks[j].score >= peaks[i].score

\* C22 witness: of three intervals of one chromosome one was discarded and two
\* that touch were returned.
DiscardedOnlyIfBeatenWitness ==
    /\ pc = "resolve_returned"
    /\ Len(peaks) = 3
    /\ \E i \in 1..3 : Discarded(i)
    /\ Len(non_overlapping) = 2
    /\ non_overlapping[1].chrom = non_overlapping[2].chrom
    /\ non_overlapping[1].end = non_overlapping[2].start

\* the input record peaks[j] is among the returned records
Returned(j) == \E k \in 1..Len(non_overlapping) : non_overlapping[k] = peaks[j]

\* C23 as stated: every discarded interval shares a position with a returned
\* interval of the same chromosome.
DiscardedOverlapsSurvivor ==
    pc = "resolve_returned" =>
        \A i \in 1..Len(peaks) :
            Discarded(i) =>
                \E k \in 1..Len(non_overlapping) :
                    Overlap(non_overlapping[k], peaks[i])

\* the input intervals linked to peaks[i] by a chain in which each interval
\* shares a position with the one before it, on the same chromosome, and has a
\* score at least as high
ChainFrom(i) ==
    LET chain[n \in 0..Len(peaks)] ==
            IF n = 0 THEN {i}
            ELSE LET before == chain[n - 1]
                 IN  before
                        \cup {j \in 1..Len(peaks) :
                                \E m \in before :
                                    /\ j # m
                                    /\ Overlap(peaks[j], peaks[m])
                                    /\ peaks[j].score >= peaks[m].score}
    IN  chain[Len(peaks)]

\* C23 as amended: every discarded interval is linked to a returned interval
\* by such a chain; the returned interval at its end need not share a position
\* with the discarded one.
DiscardedChainsToSurvivor ==
    pc = "resolve_returned" =>
        \A i \in 1..Len(peaks) :
            Discarded(i) => \E j \in ChainFrom(i) \ {i} : Returned(j)

\* C23 witness: three intervals, each overlapping the next with a higher score:
\* only the last was returned, and the first does not share a position with it.
DiscardedChainsToSurvivorWitness ==
    /\ pc = "resolve_returned"
    /\ Len(peaks) = 3
    /\ Len(non_overlapping) = 1
    /\ Overlap(peaks[1], peaks[2]) /\ peaks[1].score < peaks[2].score
    /\ Overlap(peaks[2], peaks[3]) /\ peaks[2].score < peaks[3].score
    /\ ~Overlap(peaks[1], peaks[3])
    /\ non_overlapping[1] = peaks[3]

\* the place of R[i] in the stable (chromosome, start, score descending)
\* order of R: after every record of smaller key and every earlier record of
\* equal key
ChromStartScoreRank(R) ==
    [i \in 1..Len(R) |->
        1 + Cardinality({j \in 1..Len(R) :
                \/ KeyLess(Key(R[j].chrom, <<R[j].start, -R[j].score>>),
                           Key(R[i].chrom, <<R[i].start, -R[i].score>>))
                \/ (/\ R[j].chrom = R[i].chrom /\ R[j].start = R[i].start
                    /\ R[j].score = R[i].score /\ j < i)})]

\* C19: the sweep starts from the first record of the stable (chromosome,
\* start, score descending) order of the input, in which records of equal key
\* keep their input order; when the next interval starts before the end of the
\* current one on the same chromosome, nothing is emitted and the current
\* interval becomes the next one if its score is strictly higher, and stays
\* otherwise.
SweepKeepsHigherScore ==
    [][/\ (pc = "sweep_sort" /\ peaks # <<>>)
            => /\ Len(peaks') = Len(peaks)
               /\ \A i \in 1..Len(peaks) :
                    peaks'[ChromStartScoreRank(peaks)[i]] = peaks[i]
               /\ current_peak' = <<peaks'[1]>>
       /\ (/\ pc = "sweep_loop" /\ idx < Len(peaks)
           /\ current_peak[1].chrom = peaks[idx + 1].chrom
           /\ peaks[idx + 1].start < current_peak[1].end)
            => /\ non_overlapping' = non_overlapping
               /\ current_peak' =
                    <<IF peaks[idx + 1].score > current_peak[1].score
                      THEN peaks[idx + 1] ELSE current_peak[1]>>]_vars

\* C19 witness: two intervals of equal start and score, the shorter one first
\* in the input: the call returned the shorter one alone.
SweepKeepsHigherScoreWitness ==
    /\ pc = "sweep_returned"
    /\ Len(peaks) = 2
    /\ peaks[1].chrom = peaks[2].chrom
    /\ peaks[1].start = peaks[2].start
    /\ peaks[1].score = peaks[2].score
    /\ peaks[1].end < peaks[2].end
    /\ non_overlapping = <<peaks[1]>>

(***************************************************************************)
(* Properties of the source filter and cap.                                *)
(***************************************************************************)
DigitChar(d) == CHOOSE c \in Digits : DigitVal(c) = d

DecimalOf(n) ==
    IF n < 10 THEN <<DigitChar(n)>> ELSE <<DigitChar(n \div 10), DigitChar(n % 10)>>

\* the 24 names chr1..chr22, chrX, chrY
MainChromosomeNames ==
    {<<"c", "h", "r">> \o DecimalOf(n) : n \in 1..22} \cup {ChrX, ChrY}

\* C6: a returned record's chromosome name is one of the 24 names chr1..chr22,
\* chrX, chrY; any other name (chr01, chr0, chrx, ...) is excluded.
OnlyMainChromosomeNames ==
    pc = "read_returned" =>
        \A i \in 1..Len(peaks) : peaks[i].chrom \in MainChromosomeNames

\* the place of R[i] in the stable descending-score order of R: after every
\* record of higher score and every earlier record of equal score
DescRank(R) ==
    [i \in 1..Len(R) |->
        1 + Cardinality({j \in 1..Len(R) :
                            \/ R[j].score > R[i].score
                            \/ (R[j].score = R[i].score /\ j < i)})]

\* out is what the cap K leaves of the records R
CappedTo(out, R, K) ==
    LET rank == DescRank(R)
    IN  IF Len(R) > K
        THEN /\ Len(out) = K
             /\ \A i \in 1..Len(R) : rank[i] <= K => out[rank[i]] = R[i]
             /\ \A i, j \in 1..Len(R) :
                    (rank[i] <= K /\ rank[j] > K) => R[i].score >= R[j].score
        ELSE out = R

\* C7: with more than K records retained (K > 0), the call returns the first K
\* of the stable descending-score order of the retained records (so no dropped
\* record outscores a kept one); with at most K it returns them all in input
\* order.
CapKeepsTopK ==
    pc = "read_returned" => CappedTo(peaks, parsed_peaks(lines), max_peaks_per_sample)

\* two records of R tie in score, the earlier one is the last kept and the
\* later one the first dropped
TieAcrossCut(R, K) ==
    LET rank == DescRank(R)
    IN  \E i, j \in 1..Len(R) :
            /\ i < j
            /\ R[i].score = R[j].score
            /\ R[i].peak_id # R[j].peak_id
            /\ rank[i] = K
            /\ rank[j] = K + 1

\* C7 witness: three records retained, two kept, and the dropped one ties in
\* score with a kept one that came earlier in the file.
CapKeepsTopKWitness ==
    /\ pc = "read_returned"
    /\ max_peaks_per_sample = 2
    /\ Len(peaks) = 2
    /\ Len(parsed_peaks(lines)) = 3
    /\ TieAcrossCut(parsed_peaks(lines), 2)

\* a field that int() and float() reject
NotNumeric(field) == field = <<>> \/ \E i \in 1..Len(field) : field[i] \notin Digits

\* a malformed line: not blank, and fewer than 4 fields or a non-numeric
\* start, end or score
Malformed(fields) ==
    LET parts == strip_split(fields)
    IN  /\ parts # <<>>
        /\ \/ Len(parts) < 4
           \/ NotNumeric(parts[2])
           \/ NotNumeric(parts[3])
           \/ (Len(parts) > 4 /\ NotNumeric(parts[5]))

\* the lines without the malformed ones, in order
RECURSIVE WithoutMalformed(_)
WithoutMalformed(ls) ==
    IF ls = <<>> THEN <<>>
    ELSE IF Malformed(Head(ls)) THEN WithoutMalformed(Tail(ls))
    ELSE <<Head(ls)>> \o WithoutMalformed(Tail(ls))

\* C8: a malformed line does not abort the call, and the records returned are
\* those returned for the same file without its malformed lines.
MalformedSkipped ==
    pc = "read_returned" =>
        /\ ~raised
        /\ peaks = read_peak_file(WithoutMalformed(lines), max_peaks_per_sample).peaks

\* C8 witness: a malformed line between two well-formed lines whose records
\* are both returned.
MalformedSkippedWitness ==
    /\ pc = "read_returned"
    /\ Len(lines) = 3
    /\ ~Malformed(lines[1]) /\ Malformed(lines[2]) /\ ~Malformed(lines[3])
    /\ Len(peaks) = 2

\* C11: every record read_peak_file returns has start < end; a line whose
\* start is not less than its end yields no record.
ParsedStartBeforeEnd ==
    pc = "read_returned" =>
        \A i \in 1..Len(peaks) : peaks[i].start < peaks[i].end

(***************************************************************************)
(* Properties of main.                                                     *)
(***************************************************************************)
InvalidConfig ==
    \/ args.target_length <= 0
    \/ args.merge_distance < 0
    \/ args.max_peaks_per_sample <= 0

\* a merge and normalize step has run, or is running without end
PipelineRan ==
    \/ (pc = "main_process" /\ idx >= 1)
    \/ pc = "main_hang"
    \/ (pc \in {"main_write", "main_stats", "main_exit"} /\ peaks_by_chrom # <<>>)

\* C9: with target_length <= 0, a negative merge_distance or a non-positive
\* max_peaks_per_sample the run is rejected before the pipeline starts: no
\* merge, normalize or resolve step runs, no output is written, and the run
\* does not end with status 0.
InvalidConfigRejected ==
    InvalidConfig =>
        /\ ~PipelineRan
        /\ ~output.written
        /\ (pc = "main_exit" => exit_status # 0)

\* C10: when no record survives the filter of any input file, or there is no
\* input file, the output is never written and the run ends with a non-zero
\* status (stated for valid configurations).
NoRecordsNoOutput ==
    (~InvalidConfig /\ all_peaks = <<>> /\ pc \notin {"main_glob", "main_read"}) =>
        /\ ~output.written
        /\ (pc = "main_exit" => exit_status # 0)

\* the place of R[i] in the stable ascending (chromosome, start) order of R:
\* after every record of smaller key and every earlier record of equal key
ChromStartRank(R) ==
    [i \in 1..Len(R) |->
        1 + Cardinality({j \in 1..Len(R) :
                \/ KeyLess(Key(R[j].chrom, <<R[j].start>>), Key(R[i].chrom, <<R[i].start>>))
                \/ (R[j].chrom = R[i].chrom /\ R[j].start = R[i].start /\ j < i)})]

\* out holds the records of R, each at its place of the stable order
StablySorted(out, R) ==
    LET rank == ChromStartRank(R)
    IN  /\ Len(out) = Len(R)
        /\ \A i \in 1..Len(R) : out[rank[i]] = R[i]

\* the lines ls are in non-decreasing (chromosome, start) order
LinesOrdered(ls) ==
    \A i \in 1..Len(ls) : \A j \in (i + 1)..Len(ls) :
        ~KeyLess(Key(ls[j][1], <<ls[j][2]>>), Key(ls[i][1], <<ls[i][2]>>))

\* the list the final sort is applied to
BeforeFinalSort ==
    IF args.remove_overlaps THEN remove_overlapping_peaks(processed_peaks)
    ELSE processed_peaks

\* C12: the final sort puts the records in non-decreasing (chromosome, start)
\* order with records of equal (chromosome, start) in the order they had before
\* it, with or without overlap removal, and the write loop emits one line per
\* record in that order.
OutputOrdered ==
    [][/\ (pc = "main_process" /\ idx = Len(peaks_by_chrom))
            => StablySorted(processed_peaks', BeforeFinalSort)
       /\ pc = "main_write"
            => /\ Len(output'.lines) = Len(processed_peaks)
               /\ \A i \in 1..Len(processed_peaks) :
                    /\ output'.lines[i][1] = processed_peaks[i].chrom
                    /\ output'.lines[i][2] = processed_peaks[i].start
                    /\ output'.lines[i][3] = processed_peaks[i].end
                    /\ output'.lines[i][5] = processed_peaks[i].score
               /\ LinesOrdered(output'.lines)]_vars

\* C12 witness: a valid run without overlap removal wrote two lines of equal
\* (chromosome, start) and different ids.
OutputOrderedWitness ==
    /\ ~InvalidConfig
    /\ ~args.remove_overlaps
    /\ output.written
    /\ \E i, j \in 1..Len(output.lines) :
            /\ i < j
            /\ output.lines[i][1] = output.lines[j][1]
            /\ output.lines[i][2] = output.lines[j][2]
            /\ output.lines[i][4] = "d" /\ output.lines[j][4] = "e"

\* the records of a list stay where they are, with every field as it was, while
\* records may be appended
KeptInPlace(old, new) ==
    /\ Len(new) >= Len(old)
    /\ \A i \in 1..Len(old) : new[i] = old[i]

\* every record of new is a record of old, with every field as it was
TakenFrom(old, new) ==
    \A i \in 1..Len(new) : \E j \in 1..Len(old) : new[i] = old[j]

\* the steps before the write loop change no field of a record: reading and
\* per-chromosome processing append records, grouping holds the records read,
\* overlap removal and the final sort drop and reorder records
StepsBeforeWriteKeepRecords ==
    /\ KeptInPlace(all_peaks, all_peaks')
    /\ (pc = "main_read" /\ idx = Len(peak_files))
            => \A g \in 1..Len(peaks_by_chrom') :
                    TakenFrom(all_peaks, peaks_by_chrom'[g].peaks)
    /\ (pc = "main_process" /\ idx < Len(peaks_by_chrom))
            => KeptInPlace(processed_peaks, processed_peaks')
    /\ (pc = "main_process" /\ idx = Len(peaks_by_chrom))
            => TakenFrom(processed_peaks, processed_peaks')

Orders(n) == {f \in [1..n -> 1..n] : \A i, j \in 1..n : f[i] = f[j] => i = j}

Reordered(seq, f) == [i \in 1..Len(seq) |-> seq[f[i]]]

\* chromosome, start, end and score of each line or record, in order
LineCoords(ls) == [i \in 1..Len(ls) |-> <<ls[i][1], ls[i][2], ls[i][3], ls[i][5]>>]
PeakCoords(ps) ==
    [i \in 1..Len(ps) |-> <<ps[i].chrom, ps[i].start, ps[i].end, ps[i].score>>]

\* what a run writes when the files are pooled in the order fo, for each order
\* in which the chromosomes' results can be accumulated
CoordsInOrder(fo) ==
    LET groups == group_by_chrom(read_all(Reordered(peak_files, fo),
                                          args.max_peaks_per_sample))
    IN  {PeakCoords(resolve_and_sort(
            process_groups(Reordered(groups, go),
                           args.merge_distance, args.target_length),
            args.remove_overlaps)) : go \in Orders(Len(groups))}

\* C14: for a valid configuration the (chromosome, start, end, score) sequence
\* of the output is the same whatever the order in which the files' records
\* are pooled and the order in which the chromosomes' results are accumulated.
OrderIndependent ==
    (pc = "main_stats" /\ ~InvalidConfig) =>
        \A fo \in Orders(Len(peak_files)) :
            CoordsInOrder(fo) = {LineCoords(output.lines)}

\* C14 witness: a run wrote the records of two files that share a chromosome
\* and hold two chromosomes, where the other order of the files pools the
\* records, and groups the chromosomes, in another order.
OrderIndependentWitness ==
    /\ output.written /\ ~InvalidConfig
    /\ Len(peak_files) = 2
    /\ Len(peaks_by_chrom) = 2
    /\ LET swapped == group_by_chrom(read_all(<<peak_files[2], peak_files[1]>>,
                                               args.max_peaks_per_sample))
       IN  /\ Len(swapped) = 2
           /\ swapped[1].chrom = peaks_by_chrom[2].chrom
           /\ Len(swapped[1].peaks) >= 2
    /\ Len(output.lines) >= 3

=============================================================================
